---- MODULE Spec2Model ----
(***************************************************************************)
(* Model of src/widgets/universe_grid.rs (GameOfLifeUniverseGrid): the     *)
(* coordinator that owns the shared Universe behind a Mutex, the tick loop  *)
(* threads spawned by run(), the glib notification channel drained by      *)
(* process_action on the main (consumer) thread, and the drawing area's    *)
(* queued draw served by render.                                           *)
(*                                                                         *)
(* The main thread is one sequential context: mainpc is "idle" between     *)
(* callbacks and names the position inside get_universe_snapshot, render   *)
(* or random_seed while one of them is running (these block on the Mutex). *)
(* Every run() spawns a tick loop thread in a free slot of Threads.        *)
(*                                                                         *)
(* The Universe is its dimensions and its cells in row-major order. The    *)
(* cells are abstracted to generation stamps: cell c holds the stamp       *)
(* (modulo GenMod) of the tick()/new_random() that wrote it last, so a     *)
(* grid whose cells carry different stamps is a torn grid.                 *)
(* The cosmetic DarkColorSchemePreference request only sets colours and is *)
(* left out with the colour fields.                                        *)
(***************************************************************************)
EXTENDS Integers, Sequences, FiniteSets, TLC

MaxThreads == 2   \* tick loop threads alive at the same time
NRows      == 1   \* rows of the Universe the grid is built with
NColumns   == 2   \* columns of the Universe the grid is built with
GenMod     == 2   \* generation stamps are kept modulo GenMod
MaxQueue   == 2   \* requests in flight on the notification channel
MaxTokens  == 2   \* the count of undelivered stopper tokens saturates here

Threads == 1..MaxThreads
NCells  == NRows * NColumns
Cells   == 1..NCells
None    == 0      \* Option::None of render_thread_stopper; sender 0 is not a tick loop
Main    == 0      \* the main thread as holder of the Mutex
Free    == -1     \* the Mutex is not held

UniverseGridMode == {"Design", "Run"}

\* UniverseGridRequest without the cosmetic DarkColorSchemePreference
UniverseGridRequest == {"Freeze", "Unfreeze", "ModeDesign", "ModeRun", "Run", "Halt", "Redraw"}

VARIABLES
    mode,                   \* imp.mode
    frozen,                 \* imp.frozen
    render_thread_stopper,  \* imp.render_thread_stopper: None or the loop whose stopper receiver is held
    stopper_tokens,         \* () tokens queued in the stopper channel whose receiver is held
    universe,               \* the Universe behind imp.universe
    holder,                 \* who holds the Mutex around the Universe
    poisoned,               \* the Mutex is poisoned (a holder panicked)
    tickIdx,                \* per tick loop: the next cell its running tick() writes (0: not in tick())
    channel,                \* the glib channel: requests sent and not yet dispatched
    receiverAlive,          \* the receiving end of the glib channel exists
    drawQueued,             \* drawing_area has a queued draw
    unfrozenDraw,           \* history: the queued draw was asked for by an unfreeze of a frozen grid
    timers,                 \* pending unfreeze timeouts
    mainpc,                 \* position of the main thread
    tpc,                    \* position of each tick loop thread
    lateTicks,              \* history: tick()s a loop completed after its stopper receiver was dropped
    lateSends,              \* history: Redraws a loop sent after its stopper receiver was dropped
    last                    \* history: the operation the last step performed, and what it returned

vars == <<mode, frozen, render_thread_stopper, stopper_tokens, universe, holder, poisoned,
          tickIdx, channel, receiverAlive, drawQueued, unfrozenDraw, timers, mainpc, tpc,
          lateTicks, lateSends, last>>

threadVars == <<tpc, lateTicks, lateSends>>
lockVars   == <<universe, holder, poisoned>>
coordVars  == <<mode, frozen, render_thread_stopper, stopper_tokens, drawQueued, unfrozenDraw>>

\* last: the operation, its argument, the loop that sent the request or ended
\* (None: no loop), what the operation found (was) and what it returned (ret).
Called(op, arg, from, was) ==
    [op |-> op, arg |-> arg, from |-> from, was |-> was, ret |-> <<>>]
Label(op, arg, from) == Called(op, arg, from, "-")
Returned(op, ret) == [op |-> op, arg |-> "-", from |-> None, was |-> "-", ret |-> ret]
Step == Label("-", "-", None)

WasFrozen == IF frozen THEN "frozen" ELSE "unfrozen"

Min(a, b) == IF a < b THEN a ELSE b

\* The Universe: rows(), columns() and the cells.
Universe(r, c, cells) == [rows |-> r, columns |-> c, cells |-> cells]
rows(u) == u.rows
columns(u) == u.columns

Init ==
    /\ mode = "Run"
    /\ frozen = FALSE
    /\ render_thread_stopper = None
    /\ stopper_tokens = 0
    /\ universe = Universe(NRows, NColumns, [c \in Cells |-> 0])
    /\ holder = Free
    /\ poisoned = FALSE
    /\ tickIdx = [t \in Threads |-> 0]
    /\ channel = <<>>
    /\ receiverAlive = TRUE
    /\ drawQueued = FALSE
    /\ unfrozenDraw = FALSE
    /\ timers = 0
    /\ mainpc = "idle"
    /\ tpc = [t \in Threads |-> "none"]
    /\ lateTicks = [t \in Threads |-> 0]
    /\ lateSends = [t \in Threads |-> 0]
    /\ last = Step

----------------------------------------------------------------------------
(* The coordinator's operations, as the main thread executes them.         *)

\* Mutant of is_running: a frozen grid does not count as running.
is_runningUnlessFrozen == render_thread_stopper # None /\ ~frozen

is_running == render_thread_stopper # None

WasRunning == IF is_running THEN "running" ELSE "idle"

\* Mutant of set_mode: the mode is stored whether or not a loop is running.
set_modeAlways(value) == mode' = value

set_mode(value) ==
    mode' = IF ~is_running THEN value ELSE mode

\* Mutant of queue_draw: no draw is queued while frozen.
queue_drawUnlessFrozen == drawQueued' = (drawQueued \/ ~frozen)

queue_draw == drawQueued' = TRUE

\* Mutant of set_frozen: the flag is stored and no draw is queued.
set_frozenNoDraw(value) ==
    /\ frozen' = value
    /\ UNCHANGED <<drawQueued, unfrozenDraw>>

set_frozen(value) ==
    /\ IF value = FALSE
          THEN queue_draw /\ unfrozenDraw' = (unfrozenDraw \/ frozen)
          ELSE UNCHANGED <<drawQueued, unfrozenDraw>>
    /\ frozen' = value

FreeSlot(t) == tpc[t] = "none"

\* Mutant of run: the loop is started in whatever mode the grid is in.
runKeepsMode(t) ==
    /\ FreeSlot(t)
    /\ \A u \in Threads : FreeSlot(u) => t <= u
    /\ UNCHANGED mode
    /\ render_thread_stopper' = t
    /\ stopper_tokens' = 0
    /\ tpc' = [tpc EXCEPT ![t] = "check"]
    /\ lateTicks' = [lateTicks EXCEPT ![t] = 0]
    /\ lateSends' = [lateSends EXCEPT ![t] = 0]

\* run(): set_mode(Run), a fresh stopper channel whose receiver replaces the
\* one held (dropping it), and a new thread that starts at the top of the loop.
run(t) ==
    /\ FreeSlot(t)
    /\ \A u \in Threads : FreeSlot(u) => t <= u
    /\ set_mode("Run")
    /\ render_thread_stopper' = t
    /\ stopper_tokens' = 0
    /\ tpc' = [tpc EXCEPT ![t] = "check"]
    /\ lateTicks' = [lateTicks EXCEPT ![t] = 0]
    /\ lateSends' = [lateSends EXCEPT ![t] = 0]

\* Mutant of halt: the receiver is looked at and stays where it is.
haltKeepsReceiver == UNCHANGED <<render_thread_stopper, stopper_tokens>>

\* Mutant of halt: the receiver is dropped and a token is left behind.
haltLeavesToken ==
    /\ render_thread_stopper' = None
    /\ stopper_tokens' = Min(stopper_tokens + 1, MaxTokens)

\* halt(): take() the stopper receiver and drop it.
halt ==
    /\ render_thread_stopper' = None
    /\ stopper_tokens' = 0

ModeOf(req) == IF req = "ModeDesign" THEN "Design" ELSE "Run"

process_action(action) ==
    \/ /\ action.req = "Freeze"
       /\ set_frozen(TRUE)
       /\ last' = Called("set_frozen", "true", action.from, WasFrozen)
       /\ UNCHANGED <<mode, render_thread_stopper, stopper_tokens, threadVars>>
    \/ /\ action.req = "Unfreeze"
       /\ set_frozen(FALSE)
       /\ last' = Called("set_frozen", "false", action.from, WasFrozen)
       /\ UNCHANGED <<mode, render_thread_stopper, stopper_tokens, threadVars>>
    \/ /\ action.req \in {"ModeDesign", "ModeRun"}
       /\ set_mode(ModeOf(action.req))
       /\ last' = Called("set_mode", ModeOf(action.req), action.from, WasRunning)
       /\ UNCHANGED <<frozen, drawQueued, unfrozenDraw, render_thread_stopper, stopper_tokens,
                      threadVars>>
    \/ /\ action.req = "Run"
       /\ \E t \in Threads : run(t)
       /\ last' = Called("run", "-", action.from, mode)
       /\ UNCHANGED <<frozen, drawQueued, unfrozenDraw>>
    \/ /\ action.req = "Halt"
       /\ halt
       /\ last' = Called("halt", "-", action.from, WasRunning)
       /\ UNCHANGED <<mode, frozen, drawQueued, unfrozenDraw, threadVars>>
    \/ /\ action.req = "Redraw"
       /\ queue_draw
       /\ last' = Label("redraw", "-", action.from)
       /\ UNCHANGED <<mode, frozen, unfrozenDraw, render_thread_stopper, stopper_tokens,
                      threadVars>>

----------------------------------------------------------------------------
(* The Mutex around the Universe and the bounded stand-in for the          *)
(* unbounded glib channel.                                                 *)

\* Mutant of MutexLock: the lock is handed out while it is held.
MutexLockNoWait(who) == holder' = IF poisoned THEN Free ELSE who

\* Mutex::lock(): blocks until the Mutex is free; on a poisoned Mutex it
\* returns Err, and the unwrap() of every caller panics and drops the guard.
MutexLock(who) ==
    /\ holder = Free
    /\ holder' = IF poisoned THEN Free ELSE who

\* Mutant of MutexUnlock: the guard is leaked and the Mutex stays locked.
MutexUnlockForgotten == UNCHANGED holder

\* The MutexGuard is dropped.
MutexUnlock == holder' = Free

\* The glib channel is unbounded: a send never blocks. The model keeps at most
\* MaxQueue requests in flight (queued, or to be sent by a pending timeout or by
\* the loop that holds the Mutex) by delaying those who would add one more
\* before they take the Mutex or start the timeout.
InFlight == Len(channel) + timers + (IF holder \in Threads THEN 1 ELSE 0)
Room == InFlight < MaxQueue

Request(req, from) == [req |-> req, from |-> from]

----------------------------------------------------------------------------
(* Entry points called on the main thread.                                 *)

CallSetMode ==
    /\ mainpc = "idle"
    /\ \E m \in UniverseGridMode :
          /\ set_mode(m)
          /\ last' = Called("set_mode", m, None, WasRunning)
    /\ UNCHANGED <<frozen, drawQueued, unfrozenDraw, render_thread_stopper, stopper_tokens,
                   threadVars, lockVars, tickIdx, channel, receiverAlive, timers, mainpc>>

CallSetFrozen ==
    /\ mainpc = "idle"
    /\ \E b \in BOOLEAN :
          /\ set_frozen(b)
          /\ last' = Called("set_frozen", IF b THEN "true" ELSE "false", None, WasFrozen)
    /\ UNCHANGED <<mode, render_thread_stopper, stopper_tokens, threadVars,
                   lockVars, tickIdx, channel, receiverAlive, timers, mainpc>>

CallRun ==
    /\ mainpc = "idle"
    /\ \E t \in Threads : run(t)
    /\ last' = Called("run", "-", None, mode)
    /\ UNCHANGED <<frozen, drawQueued, unfrozenDraw, lockVars, tickIdx, channel, receiverAlive,
                   timers, mainpc>>

CallHalt ==
    /\ mainpc = "idle"
    /\ halt
    /\ last' = Called("halt", "-", None, WasRunning)
    /\ UNCHANGED <<mode, frozen, drawQueued, unfrozenDraw, threadVars, lockVars, tickIdx, channel,
                   receiverAlive, timers, mainpc>>

\* setup_channel: the receiver's callback applies the requests in order.
Dispatch ==
    /\ mainpc = "idle"
    /\ receiverAlive
    /\ channel # <<>>
    /\ process_action(Head(channel))
    /\ channel' = Tail(channel)
    /\ UNCHANGED <<lockVars, tickIdx, receiverAlive, timers, mainpc>>

\* get_sender(): a request sent by any holder of a Sender clone. Such a sender
\* is free to send at any time, so its request can take any place in the queue:
\* it is modelled at the moment the receiver's callback applies it.
Deliver ==
    /\ mainpc = "idle"
    /\ receiverAlive
    /\ \E req \in UniverseGridRequest : process_action(Request(req, None))
    /\ UNCHANGED <<lockVars, tickIdx, channel, receiverAlive, timers, mainpc>>

\* connect_resize: freeze now, unfreeze by a request sent after 500ms.
Resize ==
    /\ mainpc = "idle"
    /\ Room
    /\ set_frozen(TRUE)
    /\ timers' = timers + 1
    /\ last' = Label("resize", "-", None)
    /\ UNCHANGED <<mode, render_thread_stopper, stopper_tokens, threadVars, lockVars, tickIdx,
                   channel, receiverAlive, mainpc>>

\* Mutant of TimerFire: the timeout fires and sends nothing.
TimerFireSendsNothing ==
    /\ mainpc = "idle"
    /\ timers > 0
    /\ timers' = timers - 1
    /\ last' = Step
    /\ UNCHANGED <<coordVars, threadVars, lockVars, tickIdx, channel, receiverAlive, mainpc>>

\* The timeout of connect_resize fires on the main thread.
TimerFire ==
    /\ mainpc = "idle"
    /\ timers > 0
    /\ timers' = timers - 1
    /\ IF receiverAlive
          THEN /\ channel' = Append(channel, Request("Unfreeze", None))
               /\ UNCHANGED mainpc
          ELSE /\ mainpc' = "panicked"
               /\ UNCHANGED channel
    /\ last' = Step
    /\ UNCHANGED <<coordVars, threadVars, lockVars, tickIdx, receiverAlive>>

----------------------------------------------------------------------------
(* get_universe_snapshot, render and random_seed: the main thread's        *)
(* critical sections.                                                      *)

CallSnapshot ==
    /\ mainpc = "idle"
    /\ mainpc' = "snapshot_lock"
    /\ last' = Step
    /\ UNCHANGED <<coordVars, threadVars, lockVars, tickIdx, channel, receiverAlive,
                   timers>>

SnapshotLock ==
    /\ mainpc = "snapshot_lock"
    /\ MutexLock(Main)
    /\ mainpc' = IF poisoned THEN "panicked" ELSE "snapshot_copy"
    /\ last' = Step
    /\ UNCHANGED <<coordVars, threadVars, universe, poisoned, tickIdx, channel,
                   receiverAlive, timers>>

\* Universe::snapshot() copies the cells; the guard is dropped on return.
SnapshotCopy ==
    /\ mainpc = "snapshot_copy"
    /\ MutexUnlock
    /\ mainpc' = "idle"
    /\ last' = Returned("get_universe_snapshot", universe)
    /\ UNCHANGED <<coordVars, threadVars, universe, poisoned, tickIdx, channel,
                   receiverAlive, timers>>

\* Mutant of ShouldPaint: render does not look at frozen.
ShouldPaintAlways == TRUE

\* if !self.frozen()
ShouldPaint == ~frozen

\* set_draw_func: the queued draw calls render, which does nothing when frozen.
Render ==
    /\ mainpc = "idle"
    /\ drawQueued
    /\ drawQueued' = FALSE
    /\ unfrozenDraw' = FALSE
    /\ mainpc' = IF ShouldPaint THEN "render_lock" ELSE "idle"
    /\ last' = Label("render", IF frozen THEN "frozen" ELSE "-", None)
    /\ UNCHANGED <<mode, frozen, render_thread_stopper, stopper_tokens, threadVars, lockVars,
                   tickIdx, channel, receiverAlive, timers>>

RenderLock ==
    /\ mainpc = "render_lock"
    /\ MutexLock(Main)
    /\ mainpc' = IF poisoned THEN "panicked" ELSE "render_paint"
    /\ last' = Step
    /\ UNCHANGED <<coordVars, threadVars, universe, poisoned, tickIdx, channel,
                   receiverAlive, timers>>

\* iter_cells() and the fill of every live cell; the guard is dropped on return.
RenderPaint ==
    /\ mainpc = "render_paint"
    /\ MutexUnlock
    /\ mainpc' = "idle"
    /\ last' = Returned("paint", universe)
    /\ UNCHANGED <<coordVars, threadVars, universe, poisoned, tickIdx, channel,
                   receiverAlive, timers>>

\* Universe::new_random(rows, cols): a fresh grid of rows * cols cells, all of
\* the generation the random seed stands for.
new_random(r, c, seed) == Universe(r, c, [i \in 1..(r * c) |-> seed])

\* Mutant of SeedDims: the new grid is square.
SeedDimsSquare(u) == <<rows(u), rows(u)>>

\* let (rows, cols) = (lock.rows(), lock.columns())
SeedDims(u) == <<rows(u), columns(u)>>

CallRandomSeed ==
    /\ mainpc = "idle"
    /\ mainpc' = "seed_lock"
    /\ last' = Step
    /\ UNCHANGED <<coordVars, threadVars, lockVars, tickIdx, channel, receiverAlive,
                   timers>>

\* lock().unwrap() and *lock = Universe::new_random(rows, cols)
SeedSwap ==
    /\ mainpc = "seed_lock"
    /\ MutexLock(Main)
    /\ IF poisoned
          THEN mainpc' = "panicked" /\ UNCHANGED universe
          ELSE /\ mainpc' = "seed_redraw"
               /\ \E seed \in 0..(GenMod - 1) :
                     universe' = new_random(SeedDims(universe)[1], SeedDims(universe)[2], seed)
    /\ last' = Step
    /\ UNCHANGED <<coordVars, threadVars, poisoned, tickIdx, channel, receiverAlive,
                   timers>>

\* process_action(Redraw) with the guard still alive, then the guard is dropped.
SeedRedraw ==
    /\ mainpc = "seed_redraw"
    /\ queue_draw
    /\ MutexUnlock
    /\ mainpc' = "idle"
    /\ last' = Label("random_seed", "-", None)
    /\ UNCHANGED <<mode, frozen, unfrozenDraw, render_thread_stopper, stopper_tokens,
                   threadVars, universe, poisoned, tickIdx, channel, receiverAlive, timers>>

----------------------------------------------------------------------------
(* The tick loop of run(), one thread per slot.                            *)

Cancelled(t) == render_thread_stopper # t

\* Mutant of Continue: the result of the send is ignored.
ContinueAlways(t) == TRUE

\* Mutant of Continue: the loop also leaves when the grid is frozen.
ContinueUnlessFrozen(t) == ~Cancelled(t) /\ ~frozen

\* match thread_render_stopper_sender.send(()) { Ok(_) => (), Err(_) => break }
Continue(t) == ~Cancelled(t)

\* The label of the step by which loop t leaves the loop and its thread ends.
Exited(t) ==
    Label("exit", IF lateTicks[t] > 0 THEN "after a late tick" ELSE "-", t)

\* thread_render_stopper_sender.send(()): Err once the receiver is dropped;
\* a slot whose thread has ended holds no loop ("none").
ThreadCheck(t) ==
    /\ tpc[t] = "check"
    /\ IF Continue(t)
          THEN /\ stopper_tokens' = Min(stopper_tokens + 1, MaxTokens)
               /\ tpc' = [tpc EXCEPT ![t] = "sleep"]
               /\ last' = Step
               /\ UNCHANGED <<lateTicks, lateSends>>
          ELSE /\ tpc' = [tpc EXCEPT ![t] = "none"]
               /\ lateTicks' = [lateTicks EXCEPT ![t] = 0]
               /\ lateSends' = [lateSends EXCEPT ![t] = 0]
               /\ last' = Exited(t)
               /\ UNCHANGED stopper_tokens
    /\ UNCHANGED <<mode, frozen, render_thread_stopper, drawQueued, unfrozenDraw,
                   lockVars, tickIdx, channel, receiverAlive, timers, mainpc>>

\* std::thread::sleep(50ms), then universe.lock().unwrap(): the loop is at
\* "sleep" until lock() returns.
ThreadLock(t) ==
    /\ tpc[t] = "sleep"
    /\ Room
    /\ MutexLock(t)
    /\ IF poisoned
          THEN tpc' = [tpc EXCEPT ![t] = "panicked"] /\ UNCHANGED tickIdx
          ELSE tpc' = [tpc EXCEPT ![t] = "tick"] /\ tickIdx' = [tickIdx EXCEPT ![t] = 1]
    /\ last' = Step
    /\ UNCHANGED <<coordVars, lateTicks, lateSends, universe, poisoned, channel,
                   receiverAlive, timers, mainpc>>

\* Universe::tick() stores the next generation cell by cell.
tick(u, c) == [u EXCEPT !.cells[c] = (u.cells[c] + 1) % GenMod]

Late(n, t) == IF Cancelled(t) THEN Min(n + 1, 2) ELSE n

\* locked_universe.tick()
ThreadTick(t) ==
    /\ tpc[t] = "tick"
    /\ universe' = tick(universe, tickIdx[t])
    /\ IF tickIdx[t] < rows(universe) * columns(universe)
          THEN /\ tickIdx' = [tickIdx EXCEPT ![t] = @ + 1]
               /\ UNCHANGED <<tpc, lateTicks>>
          ELSE /\ tickIdx' = [tickIdx EXCEPT ![t] = 0]
               /\ tpc' = [tpc EXCEPT ![t] = "send"]
               /\ lateTicks' = [lateTicks EXCEPT ![t] = Late(@, t)]
    /\ last' = Step
    /\ UNCHANGED <<coordVars, lateSends, holder, poisoned, channel, receiverAlive,
                   timers, mainpc>>

\* Mutant of ThreadSend: after the Redraw the loop goes on to the sleep of the
\* next iteration without the cancellation check.
ThreadSendSkipsCheck(t) ==
    /\ tpc[t] = "send"
    /\ channel' = Append(channel, [req |-> "Redraw", from |-> t])
    /\ tpc' = [tpc EXCEPT ![t] = "sleep"]
    /\ holder' = Free
    /\ last' = Step
    /\ UNCHANGED <<coordVars, lateTicks, lateSends, universe, poisoned, tickIdx,
                   receiverAlive, timers, mainpc>>

\* local_sender.send(Redraw).unwrap() with locked_universe alive; the guard is
\* dropped at the end of the iteration, or by the unwinding of the panic.
ThreadSend(t) ==
    /\ tpc[t] = "send"
    /\ IF receiverAlive
          THEN /\ channel' = Append(channel, Request("Redraw", t))
               /\ tpc' = [tpc EXCEPT ![t] = "check"]
               /\ lateSends' = [lateSends EXCEPT ![t] = Late(@, t)]
               /\ UNCHANGED poisoned
          ELSE /\ poisoned' = TRUE
               /\ tpc' = [tpc EXCEPT ![t] = "panicked"]
               /\ UNCHANGED <<channel, lateSends>>
    /\ MutexUnlock
    /\ last' = Step
    /\ UNCHANGED <<coordVars, lateTicks, universe, tickIdx, receiverAlive, timers,
                   mainpc>>

\* The main context is torn down: the receiver and the pending requests go.
ConsumerShutdown ==
    /\ mainpc = "idle"
    /\ receiverAlive
    /\ receiverAlive' = FALSE
    /\ channel' = <<>>
    /\ last' = Step
    /\ UNCHANGED <<coordVars, threadVars, lockVars, tickIdx, timers, mainpc>>

----------------------------------------------------------------------------
Next ==
    \/ CallSetMode
    \/ CallSetFrozen
    \/ CallRun
    \/ CallHalt
    \/ Dispatch
    \/ Deliver
    \/ Resize
    \/ TimerFire
    \/ CallSnapshot
    \/ SnapshotLock
    \/ SnapshotCopy
    \/ Render
    \/ RenderLock
    \/ RenderPaint
    \/ CallRandomSeed
    \/ SeedSwap
    \/ SeedRedraw
    \/ \E t \in Threads : ThreadCheck(t)
    \/ \E t \in Threads : ThreadLock(t)
    \/ \E t \in Threads : ThreadTick(t)
    \/ \E t \in Threads : ThreadSend(t)

Spec == Init /\ [][Next]_vars

NextShutdown == Next \/ ConsumerShutdown

SpecShutdown == Init /\ [][NextShutdown]_vars

\* Fair scheduling: a thread that can take a step takes it; the Mutex is
\* granted to everyone who keeps asking for it; the main loop keeps serving
\* the channel.
ThreadFairness(t) ==
    /\ WF_vars(ThreadCheck(t) \/ ThreadTick(t) \/ ThreadSend(t))
    /\ SF_vars(ThreadLock(t))

MainFairness ==
    /\ WF_vars(SnapshotCopy \/ RenderPaint \/ SeedRedraw)
    /\ SF_vars(SnapshotLock \/ RenderLock \/ SeedSwap)
    /\ SF_vars(Dispatch)

\* The operations that decide whether a loop or a lock request gets on: all of
\* Next but the mode changes, the requests of other senders (Deliver applies
\* what CallSetFrozen, CallRun and CallHalt apply, and Redraw) and the resize
\* (it freezes as CallSetFrozen does, and its Unfreeze only fills the channel,
\* which in the program never delays a sender).
LiveNext ==
    \/ CallSetFrozen
    \/ CallRun
    \/ CallHalt
    \/ Dispatch
    \/ CallSnapshot
    \/ SnapshotLock
    \/ SnapshotCopy
    \/ Render
    \/ RenderLock
    \/ RenderPaint
    \/ CallRandomSeed
    \/ SeedSwap
    \/ SeedRedraw
    \/ \E t \in Threads : ThreadCheck(t)
    \/ \E t \in Threads : ThreadLock(t)
    \/ \E t \in Threads : ThreadTick(t)
    \/ \E t \in Threads : ThreadSend(t)

FairSpec ==
    Init /\ [][LiveNext]_vars /\ MainFairness /\ \A t \in Threads : ThreadFairness(t)

\* The resize and what serves it: the freeze, the timeout, the channel and the
\* draw function, next to the loops and the calls that freeze, run and halt.
\* The timeout fires and the queued draw is served whenever the main loop
\* keeps coming back to idle.
ResizeNext ==
    \/ CallSetFrozen
    \/ CallRun
    \/ CallHalt
    \/ Dispatch
    \/ Resize
    \/ TimerFire
    \/ Render
    \/ RenderLock
    \/ RenderPaint
    \/ \E t \in Threads : ThreadCheck(t)
    \/ \E t \in Threads : ThreadLock(t)
    \/ \E t \in Threads : ThreadTick(t)
    \/ \E t \in Threads : ThreadSend(t)

FairResizeSpec ==
    /\ Init /\ [][ResizeNext]_vars
    /\ MainFairness
    /\ SF_vars(TimerFire)
    /\ SF_vars(Render)
    /\ \A t \in Threads : ThreadFairness(t)

----------------------------------------------------------------------------
(* Claims                                                                  *)

Alive(t) == tpc[t] # "none"

\* C1: clean cancellation. Once halt() has returned is_running() is false; a
\* loop whose stopper receiver was dropped completes at most one further
\* tick() and sends at most one further Redraw, a slot whose loop has ended
\* does not hold the Mutex and gets a loop again only by a run(), and under
\* fair scheduling every cancelled loop ends.
C1_CleanCancellation ==
    /\ [](last.op = "halt" => ~is_running)
    /\ [](\A t \in Threads : /\ lateTicks[t] <= 1
                             /\ lateSends[t] <= 1
                             /\ (~Alive(t) => holder # t))
    /\ [][\A t \in Threads : (~Alive(t) /\ Alive(t)') => last'.op = "run"]_vars
    /\ \A t \in Threads : (Alive(t) /\ Cancelled(t)) ~> ~Alive(t)

\* Witness of C1: a loop ends after the one tick() it completed after halt().
C1_Witness ==
    /\ last.op = "exit"
    /\ last.arg = "after a late tick"
    /\ ~is_running
    /\ ~Alive(last.from)

\* C2 as stated: once halt() has returned (no loop is registered) no loop
\* sends a Redraw.
C2_NoRedrawAfterHalt ==
    [][~is_running => \A t \in Threads : lateSends'[t] <= lateSends[t]]_vars

\* C2 as amended: a loop whose stopper receiver was dropped sends at most one
\* further Redraw, the one of the iteration it was in, and after that Redraw
\* it is at the top of the loop, where the failed send makes it leave.
C2_AtMostOneLateRedraw ==
    \A t \in Threads :
        /\ lateSends[t] <= 1
        /\ lateSends[t] = 1 => tpc[t] = "check"

\* Witness of C2: after halt() a Redraw of the halted loop is in the channel.
C2_Witness ==
    /\ ~is_running
    /\ \E t \in Threads : lateSends[t] = 1
    /\ \E i \in 1..Len(channel) : channel[i].req = "Redraw" /\ channel[i].from \in Threads

InCriticalSection ==
    (IF mainpc \in {"snapshot_copy", "render_paint", "seed_redraw"} THEN {Main} ELSE {})
        \cup {t \in Threads : tpc[t] \in {"tick", "send"}}

Whole(cells) == \A c \in DOMAIN cells : cells[c] = cells[1]

\* C3: mutual exclusion on the Universe. At most one context is inside a
\* critical section, it is the holder of the Mutex, and every snapshot
\* returned and every frame painted holds the cells of one generation.
C3_MutualExclusion ==
    /\ Cardinality(InCriticalSection) <= 1
    /\ \A x \in InCriticalSection : holder = x
    /\ Main \in InCriticalSection => Whole(universe.cells)
    /\ last.op \in {"get_universe_snapshot", "paint"} => Whole(last.ret.cells)

\* Witness of C3: get_universe_snapshot waits for the Mutex while the tick()
\* of the loop that holds it has written some of the cells.
C3_Witness ==
    /\ mainpc = "snapshot_lock"
    /\ \E t \in Threads : tpc[t] = "tick" /\ holder = t
    /\ ~Whole(universe.cells)

NoPanic == mainpc # "panicked" /\ \A t \in Threads : tpc[t] # "panicked"

MainWaits == mainpc \in {"snapshot_lock", "render_lock", "seed_lock"}

\* C4: deadlock freedom. Nobody panics, the Mutex is held only by a context
\* inside its critical section, and under fair scheduling every lock request
\* of the main thread and of a loop is granted.
C4_DeadlockFree ==
    /\ [](NoPanic /\ ~poisoned)
    /\ [](holder # Free => holder \in InCriticalSection)
    /\ MainWaits ~> (mainpc = "idle")
    /\ \A t \in Threads : (tpc[t] = "sleep") ~> (tpc[t] = "tick")

\* Witness of C4: random_seed waits for the Mutex a loop holds, after a halt().
C4_Witness ==
    /\ mainpc = "seed_lock"
    /\ holder \in Threads
    /\ ~is_running

\* C5: set_mode(m), called or applied from a Mode(m) request, leaves mode()
\* unchanged when is_running() and makes it m otherwise.
C5_ModeRejectedWhileRunning ==
    [][last'.op = "set_mode" => mode' = (IF is_running THEN mode ELSE last'.arg)]_vars

\* Witness of C5: set_mode(Design) was rejected while running.
C5_Witness ==
    /\ last.op = "set_mode"
    /\ last.arg = "Design"
    /\ last.was = "running"
    /\ is_running
    /\ mode = "Run"

Active(t) == Alive(t) /\ ~Cancelled(t)

\* C6: freezing does not stop the simulation. set_frozen (and the resize that
\* calls it) changes neither the registered loop nor any loop's position nor
\* the Mutex, and under fair scheduling a loop that is not cancelled gets to
\* its next tick() whatever frozen is.
C6_FreezeKeepsTicking ==
    /\ [][last'.op \in {"set_frozen", "resize"}
             => UNCHANGED <<render_thread_stopper, tpc, tickIdx, holder>>]_vars
    /\ \A t \in Threads : (Active(t) /\ tpc[t] # "tick") ~> (tpc[t] = "tick" \/ Cancelled(t))

\* Witness of C6: a loop is inside tick() while the grid is frozen.
C6_Witness ==
    /\ frozen
    /\ last.op = "-"
    /\ \E t \in Threads : Active(t) /\ tpc[t] = "tick" /\ tickIdx[t] = 1

\* C7: a render that runs while frozen neither takes the Mutex nor reads or
\* paints a cell: render is on its way to the cells or paints them only while
\* frozen is false, and a render called while frozen returns at once.
C7_NoPaintWhileFrozen ==
    /\ (mainpc \in {"render_lock", "render_paint"} \/ last.op = "paint") => ~frozen
    /\ (last.op = "render" /\ last.arg = "frozen") => (mainpc = "idle" /\ holder # Main)

\* Witness of C7: render was called while frozen and a loop is running.
C7_Witness ==
    /\ last.op = "render"
    /\ last.arg = "frozen"
    /\ frozen
    /\ is_running
    /\ universe.cells[1] # 0

\* C8 as stated: the render that serves the draw queued by an unfreeze runs
\* with frozen() == false.
C8_UnfreezeRenderNotFrozen ==
    [][(last'.op = "render" /\ unfrozenDraw) => ~frozen]_vars

\* C8 as amended: an unfreeze queues a draw as part of the operation and
\* leaves frozen() == false; the queued draw is taken only by a render, and
\* that render goes on to paint the Universe exactly when frozen() is still
\* false, that is unless a freeze was executed in between.
C8_UnfreezeQueuesDraw ==
    /\ [][(last'.op = "set_frozen" /\ last'.arg = "false" /\ frozen)
             => (drawQueued' /\ unfrozenDraw' /\ ~frozen')]_vars
    /\ [][(drawQueued /\ ~drawQueued') => last'.op = "render"]_vars
    /\ [][last'.op = "render" => (mainpc' = "render_lock") = ~frozen]_vars

\* Witness of C8: an Unfreeze applied in a frozen state has queued the draw.
C8_Witness ==
    /\ last.op = "set_frozen"
    /\ last.arg = "false"
    /\ last.was = "frozen"
    /\ last.from = None
    /\ timers = 0
    /\ drawQueued
    /\ unfrozenDraw
    /\ ~frozen

\* C9 as stated: while frozen the consumer applies no Redraw sent by a loop.
C9_NoTickRedrawWhileFrozen ==
    ~(last.op = "redraw" /\ last.from \in Threads /\ frozen)

\* C9 as amended: a Redraw sent by a loop is received and applied whatever
\* frozen is (it queues a draw), and no cell is painted while frozen.
C9_TickRedrawQueuedNotPainted ==
    /\ (last.op = "redraw" /\ last.from \in Threads) => drawQueued
    /\ last.op = "paint" => ~frozen

\* Witness of C9: the Redraw of a running loop was applied while frozen.
C9_Witness ==
    /\ last.op = "redraw"
    /\ last.from \in Threads
    /\ frozen
    /\ drawQueued
    /\ is_running

\* C10 as stated: with the receiver of the channel gone, no loop panics and
\* the Mutex is not poisoned.
C10_SendFailureDropped ==
    /\ \A t \in Threads : tpc[t] # "panicked"
    /\ ~poisoned

\* C11 as stated: a context that sends a Redraw or asks for a redraw does not
\* hold the Mutex around the Universe: the loop about to send its Redraw has
\* dropped the guard, and so has random_seed before its redraw.
C11_NoNotifyInCriticalSection ==
    /\ \A t \in Threads : tpc[t] = "send" => holder # t
    /\ mainpc = "seed_redraw" => holder # Main

\* C12: random_seed() keeps the dimensions and is atomic. The Universe always
\* has the rows and columns it was built with; random_seed replaces it in one
\* step, taking the free Mutex, by a whole grid; the cells change only under
\* the Mutex (by that swap, or by the tick() of the loop that holds it); every
\* tick() starts on a whole grid and every snapshot returned is a whole grid
\* of the same dimensions.
C12_SeedKeepsDimsAtomic ==
    /\ [](/\ rows(universe) = NRows
          /\ columns(universe) = NColumns
          /\ DOMAIN universe.cells = Cells)
    /\ [][(mainpc = "seed_lock" /\ mainpc' = "seed_redraw")
             => (holder = Free /\ holder' = Main /\ Whole(universe'.cells))]_vars
    /\ [][universe' # universe
             => \/ mainpc = "seed_lock" /\ mainpc' = "seed_redraw"
                \/ holder \in Threads /\ holder' = holder /\ tpc[holder] = "tick"]_vars
    /\ [](\A t \in Threads : (tpc[t] = "tick" /\ tickIdx[t] = 1) => Whole(universe.cells))
    /\ [](last.op = "get_universe_snapshot"
             => /\ Whole(last.ret.cells)
                /\ rows(last.ret) = NRows
                /\ columns(last.ret) = NColumns)

\* Witness of C12: random_seed has swapped in a new grid while a running loop
\* that has ticked before waits for the Mutex.
C12_Witness ==
    /\ mainpc = "seed_redraw"
    /\ holder = Main
    /\ is_running
    /\ stopper_tokens = MaxTokens
    /\ \E t \in Threads : tpc[t] = "sleep" /\ ~Cancelled(t)
    /\ universe.cells[1] = 1

\* C13: halt() is idempotent. halt(), called or applied from a Halt request,
\* in a state where no loop is registered changes nothing (is_running(),
\* frozen, mode, the Universe and its Mutex, both channels, the queued draw
\* and every thread are as before) and nobody panics; after any halt() no
\* loop is registered and no stopper channel is left, so a second halt()
\* finds that state.
C13_HaltIdempotent ==
    /\ [][(last'.op = "halt" /\ ~is_running)
             => /\ UNCHANGED <<mode, frozen, render_thread_stopper, stopper_tokens,
                              universe, holder, poisoned, tickIdx, channel, receiverAlive,
                              drawQueued, timers, mainpc, tpc>>
                /\ NoPanic']_vars
    /\ [](last.op = "halt" => (~is_running /\ stopper_tokens = 0))
    /\ [](~is_running => stopper_tokens = 0)

\* Witness of C13: halt() was called with no loop registered, after the loop
\* halted before has sent its last Redraw and its thread has ended.
C13_Witness ==
    /\ last.op = "halt"
    /\ last.was = "idle"
    /\ \A t \in Threads : ~Alive(t)
    /\ channel # <<>>
    /\ channel[1].from \in Threads

\* C14: a resize freezes and then unfreezes by itself. Every resize sets
\* frozen at once and starts one timeout; under fair scheduling, with the
\* consumer draining the channel, an unfreeze is applied after every resize
\* (frozen is false and a draw is queued), and a draw queued while not frozen
\* is painted unless a freeze comes first.
C14_ResizeFreezesThenUnfreezes ==
    /\ [][last'.op = "resize" => (frozen' /\ timers' = timers + 1)]_vars
    /\ (last.op = "resize")
          ~> (last.op = "set_frozen" /\ last.arg = "false" /\ ~frozen /\ drawQueued)
    /\ (drawQueued /\ ~frozen) ~> (last.op = "paint" \/ frozen)

\* Witness of C14: the timeout of a resize has fired, its Unfreeze is the next
\* request the consumer applies, and the grid is still frozen.
C14_Witness ==
    /\ frozen
    /\ timers = 0
    /\ channel # <<>>
    /\ Head(channel).req = "Unfreeze"
    /\ ~drawQueued
    /\ is_running

\* C15: running and frozen are independent. is_running() is false at first,
\* becomes true only by a run() and false only by a halt(); run() and halt()
\* leave frozen as it is; set_frozen (called, applied from Freeze or Unfreeze,
\* or by a resize), Redraw, render, random_seed() and get_universe_snapshot()
\* leave is_running() as it is.
C15_RunningFrozenIndependent ==
    /\ ~is_running
    /\ [][(~is_running /\ is_running') => last'.op = "run"]_vars
    /\ [][(is_running /\ ~is_running') => last'.op = "halt"]_vars
    /\ [][last'.op \in {"run", "halt"} => frozen' = frozen]_vars
    /\ [][last'.op \in {"set_frozen", "resize", "redraw", "render", "paint", "random_seed",
                         "get_universe_snapshot"}
             => is_running' = is_running]_vars

\* Witness of C15: run() was applied to a frozen grid, which is still frozen.
C15_Witness ==
    /\ last.op = "run"
    /\ is_running
    /\ frozen
    /\ timers = 0

\* A loop that will still perform a tick(): it has passed its cancellation
\* check and not yet finished the tick() of that iteration, or it is at the
\* check and its stopper receiver is held.
WillTick(t) ==
    \/ tpc[t] \in {"sleep", "tick"}
    \/ tpc[t] = "check" /\ ~Cancelled(t)

\* C16 as stated: at most one tick loop thread will still perform a tick().
C16_AtMostOneTicker ==
    Cardinality({t \in Threads : WillTick(t)}) <= 1

IterationOrder ==
    {<<"none", "check">>, <<"check", "sleep">>, <<"check", "none">>,
     <<"sleep", "tick">>, <<"tick", "send">>, <<"send", "check">>}

RedrawsOf(t) == Cardinality({i \in 1..Len(channel) : channel[i].from = t})

\* C17: the order of one iteration of the tick loop. A loop moves from the
\* cancellation check to the sleep (or out of the loop), from the sleep to
\* the tick() by taking the Mutex, from the tick() to the Redraw send and
\* from there back to the check; it holds the Mutex neither at the check nor
\* during the sleep; its tick() has written every cell once when it ends; and
\* a Redraw of a loop enters the channel only by the step that follows its
\* completed tick(), one Redraw per step.
C17_IterationOrder ==
    /\ [][\A t \in Threads : tpc'[t] # tpc[t] => <<tpc[t], tpc'[t]>> \in IterationOrder]_vars
    /\ [](\A t \in Threads :
             tpc[t] \in {"none", "check", "sleep"} => (holder # t /\ tickIdx[t] = 0))
    /\ [][\A t \in Threads :
             (tpc[t] = "sleep" /\ tpc'[t] = "tick") => (holder = Free /\ holder' = t)]_vars
    /\ [][\A t \in Threads :
             (tpc[t] = "tick" /\ tpc'[t] = "send")
                => (tickIdx[t] = NCells /\ Whole(universe'.cells) /\ universe' # universe)]_vars
    /\ [][\A t \in Threads :
             RedrawsOf(t)' > RedrawsOf(t)
                => /\ tpc[t] = "send" /\ tpc'[t] = "check"
                   /\ RedrawsOf(t)' = RedrawsOf(t) + 1]_vars

\* Witness of C17: a loop in its second iteration has completed its tick() and
\* is about to send the Redraw, the Redraw of its first iteration still queued.
C17_Witness ==
    \E t \in Threads :
        /\ tpc[t] = "send"
        /\ holder = t
        /\ RedrawsOf(t) = 1
        /\ ~Cancelled(t)
        /\ stopper_tokens = MaxTokens

\* C18 as stated: the stopper channel between the registered loop and the
\* coordinator holds at most one undelivered token.
C18_StopperSingleSlot ==
    stopper_tokens <= 1

\* C19: running implies Run mode. Whenever a loop is registered the mode is
\* Run: run() from idle sets it, and no set_mode takes effect while running.
C19_RunningImpliesRunMode ==
    is_running => mode = "Run"

\* Witness of C19: run() was applied in Design mode and the mode is Run.
C19_Witness ==
    /\ last.op = "run"
    /\ last.was = "Design"
    /\ is_running
    /\ mode = "Run"

\* The Unfreeze requests of q: the channel gets them only from the timeouts.
Unfreezes(q) == Cardinality({i \in 1..Len(q) : q[i].req = "Unfreeze"})

\* C20 as stated: a freeze lasts until its own delay has elapsed. The
\* timeouts fire and their requests are applied in the order of their
\* resizes, so an Unfreeze applied while a timeout or a further Unfreeze is
\* pending belongs to an earlier resize than the latest: it leaves the grid
\* frozen.
C20_FreezeLastsItsDelay ==
    [][(/\ channel # <<>>
        /\ channel' = Tail(channel)
        /\ Head(channel).req = "Unfreeze"
        /\ timers + Unfreezes(Tail(channel)) > 0) => frozen']_vars

====
